---- MODULE Spec2Model ----
\* A model of octodns/provider/googlecloud.py: the record codec
\* (_GoogleCloudRecordSetMaker and the provider's _data_for_ methods), the
\* zone locator (_get_gcloud_zone, _create_gcloud_zone), the populator
\* (populate, _get_gcloud_records) and the applier with its poll loop
\* (_apply).
\*
\* Python strings are sequences of one-character strings, so that
\* formatting, shlex tokenisation, substring tests and suffix stripping
\* are computed character by character as the code computes them.
EXTENDS Integers, Sequences, FiniteSets, Bags, TLC

\* ------------------------------------------------------------------------
\* Bounds of the model
\* ------------------------------------------------------------------------
MaxPages == 2
MaxChanges == 2
MaxPolls == 17
MaxCalls == 2
MaxRRDatas == 3

\* ------------------------------------------------------------------------
\* Strings
\* ------------------------------------------------------------------------
SP == " "
DQ == "\""

\* s.endswith(t)
EndsWith(s, t) ==
    /\ Len(t) <= Len(s)
    /\ SubSeq(s, Len(s) - Len(t) + 1, Len(s)) = t

\* s[:-k] for k > 0
DropLast(s, k) == IF k >= Len(s) THEN <<>> ELSE SubSeq(s, 1, Len(s) - k)

\* s in t, for strings: s occurs in t as a contiguous run of characters
IsSubstring(s, t) ==
    \E k \in 0..(Len(t) - Len(s)) : SubSeq(t, k + 1, k + Len(s)) = s

\* Results of operations that may raise
Ok(v) == [ok |-> TRUE, val |-> v]
Err(e) == [ok |-> FALSE, err |-> e]

\* ------------------------------------------------------------------------
\* Record types
\* ------------------------------------------------------------------------
SUPPORTS == {"A", "AAAA", "CAA", "CNAME", "MX", "NAPTR",
             "NS", "PTR", "SPF", "SRV", "TXT"}

\* record_type.upper(), on the type names the model uses
Upper(t) ==
    CASE t = "a" -> "A"
      [] t = "txt" -> "TXT"
      [] t = "soa" -> "SOA"
      [] OTHER -> t

\* ------------------------------------------------------------------------
\* The desired record (octodns.record.Record), as the provider reads it:
\* fqdn, _type, ttl, data, and the attributes value / values.
\* data is the dict with key 'value' or 'values'.
\* ------------------------------------------------------------------------
MkRecord(fqdn, type, ttl, data) ==
    [fqdn |-> fqdn, type |-> type, ttl |-> ttl, data |-> data]

record_values(record) ==
    IF "values" \in DOMAIN record.data
    THEN record.data.values
    ELSE <<record.data.value>>

record_value(record) == record.data.value

\* gcloud_zone.resource_record_set(name, record_type, ttl, rrdatas)
resource_record_set(name, type, ttl, rrdatas) ==
    [name |-> name, record_type |-> type, ttl |-> ttl, rrdatas |-> rrdatas]

\* ------------------------------------------------------------------------
\* Encoding: _GoogleCloudRecordSetMaker
\* ------------------------------------------------------------------------
record_set_from_A(record) ==
    Ok(resource_record_set(record.fqdn, record.type, record.ttl,
                           record_values(record)))

\* '{flags} {tag} {value}'.format(**d)
format_CAA(d) == d.flags \o <<SP>> \o d.tag \o <<SP>> \o d.value

record_set_from_CAA(record) ==
    IF "value" \notin DOMAIN record.data
    THEN Err("KeyError")
    ELSE Ok(resource_record_set(record.fqdn, record.type, record.ttl,
                                <<format_CAA(record.data.value)>>))

record_set_from_CNAME(record) ==
    Ok(resource_record_set(record.fqdn, record.type, record.ttl,
                           <<record_value(record)>>))

\* '{preference} {exchange}'.format(**v.data)
format_MX(d) == d.preference \o <<SP>> \o d.exchange

record_set_from_MX(record) ==
    Ok(resource_record_set(record.fqdn, record.type, record.ttl,
        [k \in DOMAIN record_values(record) |->
            format_MX(record_values(record)[k])]))

\* '{order} {preference} "{flags}" "{service}" "{regexp}" {replacement}'
format_NAPTR(d) ==
    d.order \o <<SP>> \o d.preference \o <<SP>>
    \o <<DQ>> \o d.flags \o <<DQ>> \o <<SP>>
    \o <<DQ>> \o d.service \o <<DQ>> \o <<SP>>
    \o <<DQ>> \o d.regexp \o <<DQ>> \o <<SP>> \o d.replacement

record_set_from_NAPTR(record) ==
    Ok(resource_record_set(record.fqdn, record.type, record.ttl,
        [k \in DOMAIN record_values(record) |->
            format_NAPTR(record_values(record)[k])]))

\* '{priority} {weight} {port} {target}'.format(**v.data)
format_SRV(d) ==
    d.priority \o <<SP>> \o d.weight \o <<SP>> \o d.port \o <<SP>> \o d.target

record_set_from_SRV(record) ==
    Ok(resource_record_set(record.fqdn, record.type, record.ttl,
        [k \in DOMAIN record_values(record) |->
            format_SRV(record_values(record)[k])]))

record_set_from_TXT(record) ==
    LET val == IF "values" \in DOMAIN record.data
               THEN record.data.values
               ELSE <<record.data.value>>
    IN  Ok(resource_record_set(record.fqdn, record.type, record.ttl, val))

\* _GoogleCloudRecordSetMaker.__init__ resolves '_record_set_from_<type>' by
\* getattr (AttributeError when the class has no such method), and
\* get_record_set calls it.
record_to_record_set(record) ==
    CASE record.type \in {"A", "AAAA", "NS", "SPF"} -> record_set_from_A(record)
      [] record.type = "CAA" -> record_set_from_CAA(record)
      [] record.type \in {"CNAME", "PTR"} -> record_set_from_CNAME(record)
      [] record.type = "MX" -> record_set_from_MX(record)
      [] record.type = "NAPTR" -> record_set_from_NAPTR(record)
      [] record.type = "SRV" -> record_set_from_SRV(record)
      [] record.type = "TXT" -> record_set_from_TXT(record)
      [] OTHER -> Err("AttributeError")

\* ------------------------------------------------------------------------
\* Decoding: GoogleCloudProvider._data_for_*
\* ------------------------------------------------------------------------
\* shlex.split(s) on strings of ordinary characters, spaces and double
\* quotes: spaces outside quotes separate tokens, a double quote opens or
\* closes a quoted run (which may be empty and still makes a token), and an
\* unclosed quote raises ValueError.
RECURSIVE shlex_scan(_, _, _, _, _, _)
shlex_scan(s, k, toks, cur, inTok, inQuote) ==
    IF k > Len(s)
    THEN IF inQuote THEN Err("ValueError")
         ELSE Ok(IF inTok THEN Append(toks, cur) ELSE toks)
    ELSE LET c == s[k] IN
         IF inQuote
         THEN IF c = DQ
              THEN shlex_scan(s, k + 1, toks, cur, TRUE, FALSE)
              ELSE shlex_scan(s, k + 1, toks, Append(cur, c), TRUE, TRUE)
         ELSE IF c = DQ
              THEN shlex_scan(s, k + 1, toks, cur, TRUE, TRUE)
              ELSE IF c = SP
                   THEN IF inTok
                        THEN shlex_scan(s, k + 1, Append(toks, cur), <<>>,
                                        FALSE, FALSE)
                        ELSE shlex_scan(s, k + 1, toks, cur, FALSE, FALSE)
                   ELSE shlex_scan(s, k + 1, toks, Append(cur, c), TRUE, FALSE)

shlex_split(s) == shlex_scan(s, 1, <<>>, <<>>, FALSE, FALSE)

\* [shlex.split(g) for g in rrdatas], then v[0] .. v[n-1] of every v:
\* ValueError from the tokeniser, IndexError from a missing field.
split_fields(rrdatas, n) ==
    LET parts == [k \in DOMAIN rrdatas |-> shlex_split(rrdatas[k])] IN
    IF \E k \in DOMAIN parts : ~parts[k].ok THEN Err("ValueError")
    ELSE IF \E k \in DOMAIN parts : Len(parts[k].val) < n THEN Err("IndexError")
    ELSE Ok([k \in DOMAIN parts |-> parts[k].val])

data_for_A(gcloud_record) == Ok([values |-> gcloud_record.rrdatas])

data_for_CAA(gcloud_record) ==
    LET vs == split_fields(gcloud_record.rrdatas, 3) IN
    IF ~vs.ok THEN vs
    ELSE Ok([values |-> [k \in DOMAIN vs.val |->
                [flags |-> vs.val[k][1], tag |-> vs.val[k][2],
                 value |-> vs.val[k][3]]]])

data_for_CNAME(gcloud_record) ==
    IF Len(gcloud_record.rrdatas) = 0 THEN Err("IndexError")
    ELSE Ok([value |-> gcloud_record.rrdatas[1]])

data_for_MX(gcloud_record) ==
    LET vs == split_fields(gcloud_record.rrdatas, 2) IN
    IF ~vs.ok THEN vs
    ELSE Ok([values |-> [k \in DOMAIN vs.val |->
                [preference |-> vs.val[k][1], exchange |-> vs.val[k][2]]]])

data_for_NAPTR(gcloud_record) ==
    LET vs == split_fields(gcloud_record.rrdatas, 6) IN
    IF ~vs.ok THEN vs
    ELSE Ok([values |-> [k \in DOMAIN vs.val |->
                [order |-> vs.val[k][1], preference |-> vs.val[k][2],
                 flags |-> vs.val[k][3], service |-> vs.val[k][4],
                 regexp |-> vs.val[k][5], replacement |-> vs.val[k][6]]]])

data_for_SRV(gcloud_record) ==
    LET vs == split_fields(gcloud_record.rrdatas, 4) IN
    IF ~vs.ok THEN vs
    ELSE Ok([values |-> [k \in DOMAIN vs.val |->
                [priority |-> vs.val[k][1], weight |-> vs.val[k][2],
                 port |-> vs.val[k][3], target |-> vs.val[k][4]]]])

\* Mutation of data_for_TXT: only the first entry is kept
data_for_TXT_first(gcloud_record) ==
    IF Len(gcloud_record.rrdatas) = 0 THEN [ok |-> FALSE, err |-> "IndexError"]
    ELSE [ok |-> TRUE, val |-> [value |-> gcloud_record.rrdatas[1]]]

data_for_TXT(gcloud_record) ==
    IF Len(gcloud_record.rrdatas) > 1
    THEN Ok([values |-> gcloud_record.rrdatas])
    ELSE IF Len(gcloud_record.rrdatas) = 0 THEN Err("IndexError")
    ELSE Ok([value |-> gcloud_record.rrdatas[1]])

\* getattr(self, '_data_for_{}'.format(typ))(gcloud_record)
data_for(typ, gcloud_record) ==
    CASE typ \in {"A", "AAAA", "NS", "SPF"} -> data_for_A(gcloud_record)
      [] typ = "CAA" -> data_for_CAA(gcloud_record)
      [] typ \in {"CNAME", "PTR"} -> data_for_CNAME(gcloud_record)
      [] typ = "MX" -> data_for_MX(gcloud_record)
      [] typ = "NAPTR" -> data_for_NAPTR(gcloud_record)
      [] typ = "SRV" -> data_for_SRV(gcloud_record)
      [] typ = "TXT" -> data_for_TXT(gcloud_record)
      [] OTHER -> Err("AttributeError")

\* ------------------------------------------------------------------------
\* Remote zones: _create_gcloud_zone's zone name
\* ------------------------------------------------------------------------
Letters == {"a", "b", "c", "d", "e", "f", "g", "h", "i", "j", "k", "l", "m",
            "n", "o", "p", "q", "r", "s", "t", "u", "v", "w", "x", "y", "z"}
Digits == {"0", "1", "2", "3", "4", "5", "6", "7", "8", "9"}

\* gcloud_client.zone(name=..., dns_name=...)
ManagedZone(name, dns) == [name |-> name, dns_name |-> dns]

\* Python's None, where a ManagedZone is expected
None == ManagedZone(<<>>, <<>>)

\* re.sub("[^a-z0-9-]", "", dns_name[:-1].replace('.', "-")), then a leading
\* "a" when re.match('[^a-z]', zone_name[0]); zone_name[0] of an empty
\* string raises IndexError.
zone_name_for(dns) ==
    LET cut == DropLast(dns, 1)
        dashed == [k \in DOMAIN cut |-> IF cut[k] = "." THEN "-" ELSE cut[k]]
        kept == SelectSeq(dashed, LAMBDA c : c \in Letters \cup Digits \cup {"-"})
    IN  IF Len(kept) = 0 THEN Err("IndexError")
        ELSE IF kept[1] \notin Letters THEN Ok(<<"a">> \o kept)
        ELSE Ok(kept)

\* ------------------------------------------------------------------------
\* The values the model draws its inputs from
\* ------------------------------------------------------------------------
NameZ == <<"z", ".">>
NameO == <<"o", ".">>
NameWZ == <<"w", ".", "z", ".">>
NameXZ == <<"x", "z", ".">>

ZoneZ == ManagedZone(<<"z">>, NameZ)
ZoneO == ManagedZone(<<"o">>, NameO)

\* One page of the remote zone listing, and the listings (1..MaxPages pages)
ZonePages == {<<>>, <<ZoneZ>>, <<ZoneO>>}
ZoneListings == UNION {[1..n -> ZonePages] : n \in 1..MaxPages}

\* Remote record sets of the zone of NameZ: an apex A, a TXT below the apex,
\* an SOA (a type outside SUPPORTS), and an A whose name ends with the
\* characters of the zone's name without a label boundary before them
RS_A == resource_record_set(NameZ, "A", 300, <<<<"1">>>>)
RS_TXT == resource_record_set(NameWZ, "TXT", 60,
                              <<<<"a", " ", "b">>, <<"c">>>>)
RS_SOA == resource_record_set(NameZ, "SOA", 60, <<<<"n", " ", "h">>>>)

RS_X == resource_record_set(NameXZ, "A", 300, <<<<"2">>>>)

RecordPages == {<<>>, <<RS_A>>, <<RS_TXT, RS_SOA>>, <<RS_X>>}
RecordListings == UNION {[1..n -> RecordPages] : n \in 1..MaxPages}

\* The names _apply and populate are called with
DesiredNames == {NameZ}

\* Desired records of the changes
NoRecord == MkRecord(<<>>, "", 0, [value |-> <<>>])
R1 == MkRecord(NameZ, "A", 300, [values |-> <<<<"1">>>>])
R2 == MkRecord(NameWZ, "TXT", 60, [value |-> <<"a", " ", "b">>])
\* A record of a type outside SUPPORTS
R3 == MkRecord(NameZ, "SOA", 60, [value |-> <<"n", " ", "h">>])

\* change.__class__.__name__
CreateName == <<"C", "r", "e", "a", "t", "e">>
DeleteName == <<"D", "e", "l", "e", "t", "e">>
UpdateName == <<"U", "p", "d", "a", "t", "e">>
RenameName == <<"R", "e", "n", "a", "m", "e">>
CreatName == <<"C", "r", "e", "a", "t">>

MkChange(kind, existing, new) ==
    [kind |-> kind, existing |-> existing, new |-> new]

\* Change.record: the new record, or the existing one of a deletion
change_record(change) ==
    IF change.new # NoRecord THEN change.new ELSE change.existing

ChangeUniverse == {MkChange(CreateName, NoRecord, R1),
                   MkChange(DeleteName, R1, NoRecord),
                   MkChange(UpdateName, R1, R2),
                   MkChange(RenameName, R1, R2),
                   MkChange(CreatName, NoRecord, R2)}
ChangeLists == UNION {[1..n -> ChangeUniverse] : n \in 0..MaxChanges}

\* Lists of changes that hold a record of a type outside SUPPORTS: as the
\* record of a Create, or as the new record of an Update
UnsupportedChanges == {MkChange(CreateName, NoRecord, R3),
                       MkChange(UpdateName, R1, R3)}
UnsupportedChangeLists ==
    {chs \in UNION {[1..n -> UnsupportedChanges
                              \cup {MkChange(DeleteName, R1, NoRecord)}] :
                        n \in 1..MaxChanges} :
        \E k \in DOMAIN chs : chs[k] \in UnsupportedChanges}

\* ------------------------------------------------------------------------
\* State
\* ------------------------------------------------------------------------
VARIABLES
    remoteZones,    \* remote: the zone listing, a sequence of pages
    rrsets,         \* remote: the record set listing of the zone, in pages
    remoteStatus,   \* remote: status of the batch submitted by this call
    remoteBatches,  \* remote: the batches accepted from this call
    zone,           \* the Zone object handed to populate: name, records
    pc,             \* where the provider is
    call,           \* "apply", "populate" or "none"
    dns_name,       \* _get_gcloud_zone's dns_name
    page_token,     \* _get_gcloud_zone's page_token (0 is None)
    create,         \* _get_gcloud_zone's create, of the current invocation
    gcloud_zone,    \* what _get_gcloud_zone returned
    changes,        \* plan.changes
    gcloud_changes, \* the batch: ops, status
    i,              \* _apply's delay
    rec_token,      \* _get_gcloud_records' page_token
    records_,       \* populate's _records
    error,          \* the exception that ended the call, or "none"
    netlog,         \* history: the remote calls of this call, in order
    delays,         \* history: the arguments of time.sleep, in order
    examined,       \* history: the zones the locator's loop has looked at
    yielded,        \* history: what _get_gcloud_records has yielded
    pre,            \* history: remote zones and zone.records at call start
    popHist,        \* history: one entry per populate that returned
    nCalls,         \* calls started
    cPc, cRecord, cRecordSet, cData,  \* the codec applied to one record
    cReencoded      \* the record set encoded from decoded data

provVars == <<remoteZones, rrsets, remoteStatus, remoteBatches, zone, pc, call,
              dns_name, page_token, create, gcloud_zone, changes,
              gcloud_changes, i, rec_token, records_, error, netlog, delays,
              examined, yielded, pre, popHist, nCalls>>
codecVars == <<cPc, cRecord, cRecordSet, cData, cReencoded>>
vars == <<provVars, codecVars>>

Event(op, token) == [op |-> op, token |-> token]
NoBatch == [ops |-> <<>>, status |-> "none"]

InitProvider(zs, rs) ==
    /\ remoteZones = zs
    /\ rrsets = rs
    /\ remoteStatus = "none"
    /\ remoteBatches = <<>>
    /\ zone = [name |-> NameZ, records |-> EmptyBag]
    /\ pc = "idle"
    /\ call = "none"
    /\ dns_name = <<>>
    /\ page_token = 0
    /\ create = FALSE
    /\ gcloud_zone = None
    /\ changes = <<>>
    /\ gcloud_changes = NoBatch
    /\ i = 0
    /\ rec_token = 0
    /\ records_ = {}
    /\ error = "none"
    /\ netlog = <<>>
    /\ delays = <<>>
    /\ examined = <<>>
    /\ yielded = <<>>
    /\ pre = [remote |-> zs, records |-> EmptyBag]
    /\ popHist = <<>>
    /\ nCalls = 0

CodecIdle ==
    /\ cPc = "off"
    /\ cRecord = NoRecord
    /\ cRecordSet = Err("none")
    /\ cData = Err("none")
    /\ cReencoded = Err("none")

Init ==
    /\ \E zs \in ZoneListings : \E rs \in RecordListings : InitProvider(zs, rs)
    /\ CodecIdle

\* ------------------------------------------------------------------------
\* Starting a call
\* ------------------------------------------------------------------------
CanStart == pc \in {"idle", "returned", "raised"} /\ nCalls < MaxCalls

\* Mutation of DefaultCreate: the locator creates unless told not to
DefaultCreateTrue == TRUE

\* create's default in _get_gcloud_zone's signature
DefaultCreate == FALSE

\* The state in which _get_gcloud_zone(name, create=c) is entered from
\* callee, with the histories of the call empty
StartCall(callee, name, chs, c) ==
    /\ call' = callee
    /\ dns_name' = name
    /\ changes' = chs
    /\ page_token' = 0
    /\ create' = c
    /\ pc' = "locate"
    /\ gcloud_zone' = None
    /\ gcloud_changes' = NoBatch
    /\ i' = 0
    /\ rec_token' = 0
    /\ records_' = {}
    /\ error' = "none"
    /\ netlog' = <<>>
    /\ delays' = <<>>
    /\ examined' = <<>>
    /\ yielded' = <<>>
    /\ remoteStatus' = "none"
    /\ remoteBatches' = <<>>
    /\ pre' = [remote |-> remoteZones, records |-> zone.records]
    /\ nCalls' = nCalls + 1
    /\ UNCHANGED <<remoteZones, rrsets, zone, popHist>>

\* _apply(plan): desired.name, plan.changes; the zone is located with
\* create=True
ApplyStart ==
    /\ CanStart
    /\ \E name \in DesiredNames : \E chs \in ChangeLists :
           StartCall("apply", name, chs, TRUE)
    /\ UNCHANGED codecVars

\* Fully qualified names of zones that are not listed remotely: the root,
\* names that start with a letter, a digit, a dash, an upper-case letter or
\* an underscore, and a name of two labels
NewZoneNames == {<<".">>, <<"z", "1", ".">>, <<"1", ".">>, <<"-", "z", ".">>,
                 <<"Z", ".">>, <<"_", "z", ".">>, <<"Z", "z", ".">>,
                 <<"a", ".", "1", ".">>}

\* _apply(plan) for a plan of no changes whose desired zone has one of
\* those names
ApplyStartNewZone ==
    /\ CanStart
    /\ \E name \in NewZoneNames : StartCall("apply", name, <<>>, TRUE)
    /\ UNCHANGED codecVars

\* _apply(plan) for a plan with a record of a type outside SUPPORTS
ApplyStartUnsupported ==
    /\ CanStart
    /\ \E name \in DesiredNames : \E chs \in UnsupportedChangeLists :
           StartCall("apply", name, chs, TRUE)
    /\ UNCHANGED codecVars

\* populate(zone): the zone is located with the default create
PopulateStart ==
    /\ CanStart
    /\ StartCall("populate", zone.name, <<>>, DefaultCreate)
    /\ UNCHANGED codecVars

\* ------------------------------------------------------------------------
\* _get_gcloud_zone
\* ------------------------------------------------------------------------
\* Mutation of NextPageToken: the continuation token is dropped
NextPageTokenNone(pages, token) == 0

\* The page a token names (None names the first), and the page's
\* next_page_token (0, None, on the last page)
PageIndex(token) == IF token = 0 THEN 1 ELSE token

NextPageToken(pages, token) ==
    IF PageIndex(token) < Len(pages) THEN PageIndex(token) + 1 ELSE 0

\* Index of the first zone of the page whose dns_name is name, 0 if none
FirstMatch(page, name) ==
    IF \E k \in DOMAIN page : page[k].dns_name = name
    THEN CHOOSE k \in DOMAIN page :
            /\ page[k].dns_name = name
            /\ \A j \in 1..(k - 1) : page[j].dns_name # name
    ELSE 0

\* create as the recursive call self._get_gcloud_zone(dns_name,
\* next_page_token) receives it: the argument is not passed on
RecursiveCreate(c) == DefaultCreate

\* Where populate goes on with what the locator returned: "if gcloud_zone:"
PopulateAfterLocate(gz) ==
    IF gz # None THEN "list_records" ELSE "returned"

AfterLocate(gz) ==
    IF call = "apply" THEN "build" ELSE PopulateAfterLocate(gz)

\* What a populate that returns leaves in the history: the remote zone
\* listing it ran against and the zone's records after it
PopEntry(recs) == [remote |-> remoteZones, records |-> recs]

\* One invocation of _get_gcloud_zone: list one page, look for the name,
\* return the match, or recurse on the next page, or create, or return None
LocatePage ==
    /\ pc = "locate"
    /\ LET page == remoteZones[PageIndex(page_token)]
           m == FirstMatch(page, dns_name)
           next == NextPageToken(remoteZones, page_token)
       IN  /\ netlog' = Append(netlog, Event("list_zones", page_token))
           /\ examined' = examined \o
                  (IF m > 0 THEN SubSeq(page, 1, m) ELSE page)
           /\ IF m > 0
              THEN /\ gcloud_zone' = page[m]
                   /\ pc' = AfterLocate(page[m])
                   /\ UNCHANGED <<page_token, create>>
              ELSE IF next # 0
              THEN /\ page_token' = next
                   /\ create' = RecursiveCreate(create)
                   /\ pc' = "locate"
                   /\ UNCHANGED gcloud_zone
              ELSE IF create
              THEN /\ pc' = "create_zone"
                   /\ UNCHANGED <<page_token, create, gcloud_zone>>
              ELSE /\ gcloud_zone' = None
                   /\ pc' = AfterLocate(None)
                   /\ UNCHANGED <<page_token, create>>
    /\ popHist' = IF call = "populate" /\ pc' = "returned"
                  THEN Append(popHist, PopEntry(zone.records))
                  ELSE popHist
    /\ UNCHANGED <<remoteZones, rrsets, remoteStatus, remoteBatches, zone,
                   call, dns_name, changes, gcloud_changes, i, rec_token,
                   records_, error, delays, yielded, pre, nCalls>>
    /\ UNCHANGED codecVars

\* Mutation of WithZone: the created zone replaces the listing
WithZoneOnly(pages, z) == <<<<z>>>>

\* The remote listing after a zone has been created
WithZone(pages, z) ==
    [pages EXCEPT ![Len(pages)] = Append(pages[Len(pages)], z)]

\* _create_gcloud_zone: derive the name, create the zone remotely
CreateZone ==
    /\ pc = "create_zone"
    /\ LET zn == zone_name_for(dns_name) IN
       IF ~zn.ok
       THEN /\ pc' = "raised"
            /\ error' = zn.err
            /\ UNCHANGED <<remoteZones, gcloud_zone, netlog>>
       ELSE /\ remoteZones' = WithZone(remoteZones,
                                       ManagedZone(zn.val, dns_name))
            /\ gcloud_zone' = ManagedZone(zn.val, dns_name)
            /\ netlog' = Append(netlog, Event("create_zone", 0))
            /\ pc' = AfterLocate(ManagedZone(zn.val, dns_name))
            /\ UNCHANGED error
    /\ UNCHANGED <<rrsets, remoteStatus, remoteBatches, zone, call, dns_name,
                   page_token, create, changes, gcloud_changes, i, rec_token,
                   records_, delays, examined, yielded, pre, popHist, nCalls>>
    /\ UNCHANGED codecVars

\* gcloud_zone.create() refused by the remote system: the exception leaves
\* _create_gcloud_zone, _get_gcloud_zone and the caller
CreateZoneRejected ==
    /\ pc = "create_zone"
    /\ zone_name_for(dns_name).ok
    /\ netlog' = Append(netlog, Event("create_zone_rejected", 0))
    /\ pc' = "raised"
    /\ error' = "RemoteError"
    /\ UNCHANGED <<remoteZones, rrsets, remoteStatus, remoteBatches, zone,
                   call, dns_name, page_token, create, gcloud_zone, changes,
                   gcloud_changes, i, rec_token, records_, delays, examined,
                   yielded, pre, popHist, nCalls>>
    /\ UNCHANGED codecVars

\* ------------------------------------------------------------------------
\* _apply: building the batch
\* ------------------------------------------------------------------------
AddOp(rs) == [op |-> "add", rs |-> rs]

\* Mutation of DeleteOp: the record set is added
DeleteOpAsAdd(rs) == [op |-> "add", rs |-> rs]

DeleteOp(rs) == [op |-> "delete", rs |-> rs]

\* "if class_name in 'Create'": a substring test on the class name
IsCreate(class_name) == IsSubstring(class_name, CreateName)

\* Mutation of UpdateOps: the record set is added before the old one is
\* deleted
UpdateOpsAddFirst(existing_rs, new_rs) ==
    <<[op |-> "add", rs |-> new_rs], [op |-> "delete", rs |-> existing_rs]>>

\* The Update branch: delete_record_set(existing), then add_record_set(new)
UpdateOps(existing_rs, new_rs) == <<DeleteOp(existing_rs), AddOp(new_rs)>>

\* The operations one change adds to gcloud_changes, or the exception
ChangeOps(change) ==
    IF IsCreate(change.kind)
    THEN LET rs == record_to_record_set(change_record(change)) IN
         IF rs.ok THEN Ok(<<AddOp(rs.val)>>) ELSE rs
    ELSE IF change.kind = DeleteName
    THEN LET rs == record_to_record_set(change_record(change)) IN
         IF rs.ok THEN Ok(<<DeleteOp(rs.val)>>) ELSE rs
    ELSE IF change.kind = UpdateName
    THEN LET old == record_to_record_set(change.existing)
             new == record_to_record_set(change.new)
         IN  IF ~old.ok THEN old
             ELSE IF ~new.ok THEN new
             ELSE Ok(UpdateOps(old.val, new.val))
    ELSE Err("RuntimeError")

\* "for change in changes": the operations in order, or the first exception
RECURSIVE BuildOps(_, _)
BuildOps(chs, ops) ==
    IF chs = <<>> THEN Ok(ops)
    ELSE LET r == ChangeOps(Head(chs)) IN
         IF r.ok THEN BuildOps(Tail(chs), ops \o r.val) ELSE r

\* gcloud_zone.changes() and the loop over the changes; gcloud_zone is None
\* when the locator returned nothing
BuildBatch ==
    /\ pc = "build"
    /\ LET built == BuildOps(changes, <<>>) IN
       IF gcloud_zone = None
       THEN /\ pc' = "raised"
            /\ error' = "AttributeError"
            /\ UNCHANGED gcloud_changes
       ELSE IF ~built.ok
       THEN /\ pc' = "raised"
            /\ error' = built.err
            /\ UNCHANGED gcloud_changes
       ELSE /\ pc' = "submit"
            /\ gcloud_changes' = [ops |-> built.val, status |-> "none"]
            /\ UNCHANGED error
    /\ UNCHANGED <<remoteZones, rrsets, remoteStatus, remoteBatches, zone,
                   call, dns_name, page_token, create, gcloud_zone, changes,
                   i, rec_token, records_, netlog, delays, examined, yielded,
                   pre, popHist, nCalls>>
    /\ UNCHANGED codecVars

\* ------------------------------------------------------------------------
\* _apply: submitting and polling
\* ------------------------------------------------------------------------
\* The status a batch can be answered with
SubmitStatuses == {"pending", "done"}

\* gcloud_changes.create() accepted; "i = 1"
Submit ==
    /\ pc = "submit"
    /\ \E st \in SubmitStatuses :
          /\ remoteStatus' = st
          /\ gcloud_changes' = [gcloud_changes EXCEPT !.status = st]
    /\ remoteBatches' = Append(remoteBatches, gcloud_changes.ops)
    /\ netlog' = Append(netlog, Event("submit", 0))
    /\ i' = 1
    /\ pc' = "poll"
    /\ UNCHANGED <<remoteZones, rrsets, zone, call, dns_name, page_token,
                   create, gcloud_zone, changes, rec_token, records_, error,
                   delays, examined, yielded, pre, popHist, nCalls>>
    /\ UNCHANGED codecVars

\* Mutation of SubmitRejected: the rejected submission is tried again
SubmitRetried ==
    /\ pc = "submit"
    /\ netlog' = Append(netlog, [op |-> "submit_rejected", token |-> 0])
    /\ UNCHANGED <<remoteZones, rrsets, remoteStatus, remoteBatches, zone, pc,
                   call, dns_name, page_token, create, gcloud_zone, changes,
                   gcloud_changes, i, rec_token, records_, error, delays,
                   examined, yielded, pre, popHist, nCalls>>
    /\ UNCHANGED codecVars

\* gcloud_changes.create() refused by the remote system: nothing catches the
\* exception, it leaves _apply
SubmitRejected ==
    /\ pc = "submit"
    /\ netlog' = Append(netlog, Event("submit_rejected", 0))
    /\ pc' = "raised"
    /\ error' = "RemoteError"
    /\ UNCHANGED <<remoteZones, rrsets, remoteStatus, remoteBatches, zone,
                   call, dns_name, page_token, create, gcloud_zone, changes,
                   gcloud_changes, i, rec_token, records_, delays, examined,
                   yielded, pre, popHist, nCalls>>
    /\ UNCHANGED codecVars

\* Mutation of StillWaiting: the loop does not wait for a pending batch
StillWaitingNever(status) == status \notin {"pending", "done"}

\* "while gcloud_changes.status != 'done'"
StillWaiting(status) == status # "done"

\* "if i < 30: i += 2"
NextDelay(d) == IF d < 30 THEN d + 2 ELSE d

\* The loop condition is false: _apply returns
PollReturn ==
    /\ pc = "poll"
    /\ ~StillWaiting(gcloud_changes.status)
    /\ pc' = "returned"
    /\ UNCHANGED <<remoteZones, rrsets, remoteStatus, remoteBatches, zone,
                   call, dns_name, page_token, create, gcloud_zone, changes,
                   gcloud_changes, i, rec_token, records_, error, netlog,
                   delays, examined, yielded, pre, popHist, nCalls>>
    /\ UNCHANGED codecVars

\* The loop condition is true: time.sleep(i)
Sleep ==
    /\ pc = "poll"
    /\ StillWaiting(gcloud_changes.status)
    /\ Len(delays) < MaxPolls
    /\ delays' = Append(delays, i)
    /\ pc' = "reload"
    /\ UNCHANGED <<remoteZones, rrsets, remoteStatus, remoteBatches, zone,
                   call, dns_name, page_token, create, gcloud_zone, changes,
                   gcloud_changes, i, rec_token, records_, error, netlog,
                   examined, yielded, pre, popHist, nCalls>>
    /\ UNCHANGED codecVars

\* The status re-fetches the log of this call holds
Reloads == Len(SelectSeq(netlog, LAMBDA e : e.op = "reload"))

\* Mutation of Reload: the loop goes round without re-fetching the status
ReloadNotFetched ==
    /\ pc = "reload"
    /\ i' = (IF i < 30 THEN i + 2 ELSE i)
    /\ pc' = "poll"
    /\ UNCHANGED <<remoteZones, rrsets, remoteStatus, remoteBatches, zone,
                   call, dns_name, page_token, create, gcloud_zone, changes,
                   gcloud_changes, rec_token, records_, error, netlog, delays,
                   examined, yielded, pre, popHist, nCalls>>
    /\ UNCHANGED codecVars

\* gcloud_changes.reload(), then the delay's increment, after a sleep the
\* history holds
Reload ==
    /\ pc = "reload"
    /\ Reloads < Len(delays)
    /\ gcloud_changes' = [gcloud_changes EXCEPT !.status = remoteStatus]
    /\ netlog' = Append(netlog, Event("reload", 0))
    /\ i' = NextDelay(i)
    /\ pc' = "poll"
    /\ UNCHANGED <<remoteZones, rrsets, remoteStatus, remoteBatches, zone,
                   call, dns_name, page_token, create, gcloud_zone, changes,
                   rec_token, records_, error, delays, examined, yielded,
                   pre, popHist, nCalls>>
    /\ UNCHANGED codecVars

\* Mutation of SleepUnrecorded: the loop gives up after MaxPolls sleeps
SleepGivesUp ==
    /\ pc = "poll"
    /\ gcloud_changes.status # "done"
    /\ Len(delays) >= MaxPolls
    /\ pc' = "raised"
    /\ error' = "Timeout"
    /\ UNCHANGED <<remoteZones, rrsets, remoteStatus, remoteBatches, zone,
                   call, dns_name, page_token, create, gcloud_zone, changes,
                   gcloud_changes, i, rec_token, records_, netlog, delays,
                   examined, yielded, pre, popHist, nCalls>>
    /\ UNCHANGED codecVars

\* The loop condition is true, time.sleep(i), once the history of delays
\* is full: the loop itself counts nothing, only the history stops growing
SleepUnrecorded ==
    /\ pc = "poll"
    /\ StillWaiting(gcloud_changes.status)
    /\ Len(delays) >= MaxPolls
    /\ pc' = "reload"
    /\ UNCHANGED <<remoteZones, rrsets, remoteStatus, remoteBatches, zone,
                   call, dns_name, page_token, create, gcloud_zone, changes,
                   gcloud_changes, i, rec_token, records_, error, netlog,
                   delays, examined, yielded, pre, popHist, nCalls>>
    /\ UNCHANGED codecVars

\* gcloud_changes.reload() and the delay's increment after a sleep the
\* history does not hold
ReloadUnrecorded ==
    /\ pc = "reload"
    /\ Reloads >= Len(delays)
    /\ gcloud_changes' = [gcloud_changes EXCEPT !.status = remoteStatus]
    /\ i' = NextDelay(i)
    /\ pc' = "poll"
    /\ UNCHANGED <<remoteZones, rrsets, remoteStatus, remoteBatches, zone,
                   call, dns_name, page_token, create, gcloud_zone, changes,
                   rec_token, records_, error, netlog, delays, examined,
                   yielded, pre, popHist, nCalls>>
    /\ UNCHANGED codecVars

\* The remote system completes the batch
RemoteProgress ==
    /\ pc \in {"poll", "reload"}
    /\ remoteStatus = "pending"
    /\ remoteStatus' = "done"
    /\ UNCHANGED <<remoteZones, rrsets, remoteBatches, zone, pc, call,
                   dns_name, page_token, create, gcloud_zone, changes,
                   gcloud_changes, i, rec_token, records_, error, netlog,
                   delays, examined, yielded, pre, popHist, nCalls>>
    /\ UNCHANGED codecVars

\* ------------------------------------------------------------------------
\* populate
\* ------------------------------------------------------------------------
\* A record set object of the client library: the library makes one object
\* per listed entry, and _records, a Python set, holds objects by identity
RecordObject(p, k, rs) == [id |-> <<p, k>>, rs |-> rs]

\* Mutation of IsSupported: no record set is skipped
IsSupportedAny(rs) == TRUE

\* "if gcloud_record.record_type.upper() in self.SUPPORTS"
IsSupported(rs) == Upper(rs.record_type) \in SUPPORTS

\* One page of _get_gcloud_records: list it, yield its entries to populate's
\* first loop, which keeps the supported ones, and go on to the next page
\* if the page names one
ListRecordsPage ==
    /\ pc = "list_records"
    /\ LET p == PageIndex(rec_token)
           page == rrsets[p]
           next == NextPageToken(rrsets, rec_token)
       IN  /\ netlog' = Append(netlog, Event("list_records", rec_token))
           /\ yielded' = yielded \o page
           /\ records_' = records_ \cup
                  {RecordObject(p, k, page[k]) :
                      k \in {j \in DOMAIN page : IsSupported(page[j])}}
           /\ IF next # 0
              THEN /\ rec_token' = next
                   /\ pc' = "list_records"
              ELSE /\ pc' = "add_records"
                   /\ UNCHANGED rec_token
    /\ UNCHANGED <<remoteZones, rrsets, remoteStatus, remoteBatches, zone,
                   call, dns_name, page_token, create, gcloud_zone, changes,
                   gcloud_changes, i, error, delays, examined, pre, popHist,
                   nCalls>>
    /\ UNCHANGED codecVars

\* The zone-relative name: "if record_name.endswith(zone.name):
\* record_name = record_name[:-(len(zone.name) + 1)]"
RelativeName(record_name, zone_name) ==
    IF EndsWith(record_name, zone_name)
    THEN DropLast(record_name, Len(zone_name) + 1)
    ELSE record_name

\* Record.new(zone, record_name, data, source=self)
Record_new(record_name, data) == [name |-> record_name, data |-> data]

\* Mutation of add_record: a record already held is added again
add_record_again(recs, record) == recs (+) SetToBag({record})

\* zone.add_record(record): zone.records holds a record once
add_record(recs, record) ==
    IF BagIn(record, recs) THEN recs ELSE recs (+) SetToBag({record})

\* The body of populate's second loop for one object of _records: the
\* record it hands to zone.add_record, or the exception
RecordFor(obj, zone_name) ==
    LET typ == Upper(obj.rs.record_type)
        data == data_for(typ, obj.rs)
    IN  IF ~data.ok THEN data
        ELSE Ok(Record_new(RelativeName(obj.rs.name, zone_name),
                           data.val @@ [type |-> typ, ttl |-> obj.rs.ttl]))

\* zone.records after the loop has added the records of the objects objs
RECURSIVE AddAll(_, _, _)
AddAll(recs, objs, zone_name) ==
    IF objs = {} THEN recs
    ELSE LET o == CHOOSE x \in objs : TRUE IN
         AddAll(add_record(recs, RecordFor(o, zone_name).val),
                objs \ {o}, zone_name)

\* populate's second loop, "for gcloud_record in _records", and the return.
\* A set is iterated in no particular order: when some object raises, any
\* subset of the others may have been added before it.
AddRecords ==
    /\ pc = "add_records"
    /\ LET good == {o \in records_ : RecordFor(o, zone.name).ok}
           bad == records_ \ good
       IN  IF bad = {}
           THEN /\ zone' = [zone EXCEPT
                       !.records = AddAll(zone.records, good, zone.name)]
                /\ pc' = "returned"
                /\ popHist' = Append(popHist, PopEntry(zone'.records))
                /\ UNCHANGED error
           ELSE /\ \E done \in SUBSET good :
                       zone' = [zone EXCEPT
                           !.records = AddAll(zone.records, done, zone.name)]
                /\ \E o \in bad : error' = RecordFor(o, zone.name).err
                /\ pc' = "raised"
                /\ UNCHANGED popHist
    /\ UNCHANGED <<remoteZones, rrsets, remoteStatus, remoteBatches, call,
                   dns_name, page_token, create, gcloud_zone, changes,
                   gcloud_changes, i, rec_token, records_, netlog, delays,
                   examined, yielded, pre, nCalls>>
    /\ UNCHANGED codecVars

\* ------------------------------------------------------------------------
\* The codec applied to one record: encode, then decode what was encoded
\* ------------------------------------------------------------------------
\* Field values: plain ones and ones with an embedded space
Plain == {<<"a">>, <<"1", "0">>}
Spaced == {<<"a">>, <<"a", " ", "b">>}

\* One or two values
Lists(S) == UNION {[1..n -> S] : n \in 1..2}

CAAValues == [flags : {<<"0">>}, tag : {<<"t">>}, value : Spaced]
MXValues == [preference : {<<"1", "0">>}, exchange : {<<"m", ".">>}]
NAPTRValues == [order : {<<"1">>}, preference : {<<"2">>}, flags : {<<"u">>},
                service : Spaced, regexp : Spaced, replacement : {<<".">>}]
SRVValues == [priority : {<<"1">>}, weight : {<<"2">>}, port : {<<"8">>},
              target : {<<"m", ".">>}]

\* The data of a valid record of each type: 'values' for the types that hold
\* several values, 'value' for CNAME and PTR, either for TXT; a CAA record
\* of two values has 'values', one of a single value has 'value', as
\* _record_set_from_CAA reads it
DataOf(type) ==
    CASE type \in {"A", "AAAA", "NS"} -> [values : Lists(Plain)]
      [] type = "SPF" -> [values : Lists(Spaced)]
      [] type = "CAA" -> [values : [1..2 -> CAAValues]] \cup [value : CAAValues]
      [] type \in {"CNAME", "PTR"} -> [value : Plain]
      [] type = "MX" -> [values : Lists(MXValues)]
      [] type = "NAPTR" -> [values : Lists(NAPTRValues)]
      [] type = "SRV" -> [values : Lists(SRVValues)]
      [] type = "TXT" -> [values : Lists(Spaced)] \cup [value : Spaced]

CodecRecords ==
    UNION {{MkRecord(NameWZ, t, 300, d) : d \in DataOf(t)} : t \in SUPPORTS}

InitCodec ==
    /\ InitProvider(<<<<>>>>, <<<<>>>>)
    /\ cPc = "start"
    /\ cRecord \in CodecRecords
    /\ cRecordSet = Err("none")
    /\ cData = Err("none")
    /\ cReencoded = Err("none")

\* _record_to_record_set(gcloud_zone, record)
Encode ==
    /\ cPc = "start"
    /\ cRecordSet' = record_to_record_set(cRecord)
    /\ cPc' = IF cRecordSet'.ok THEN "encoded" ELSE "raised"
    /\ UNCHANGED <<cRecord, cData, cReencoded>>
    /\ UNCHANGED provVars

\* _data_for_<type>(gcloud_record) on the encoded record set
Decode ==
    /\ cPc = "encoded"
    /\ cData' = data_for(Upper(cRecordSet.val.record_type), cRecordSet.val)
    /\ cPc' = IF cData'.ok THEN "decoded" ELSE "raised"
    /\ UNCHANGED <<cRecord, cRecordSet, cReencoded>>
    /\ UNCHANGED provVars

\* ------------------------------------------------------------------------
\* The codec applied to one remote TXT record set: decode, then encode the
\* record made from the decoded data
\* ------------------------------------------------------------------------
\* The entries of a remote TXT record set, and the record sets of
\* 1..MaxRRDatas entries
TXTEntries == {<<"a">>, <<"a", " ", "b">>, <<"c">>}

RemoteTXT ==
    UNION {{resource_record_set(NameWZ, "TXT", 60, rr) :
               rr \in [1..n -> TXTEntries]} : n \in 1..MaxRRDatas}

InitDecode ==
    /\ InitProvider(<<<<>>>>, <<<<>>>>)
    /\ cPc = "listed"
    /\ cRecord = NoRecord
    /\ cRecordSet \in {Ok(rs) : rs \in RemoteTXT}
    /\ cData = Err("none")
    /\ cReencoded = Err("none")

\* _data_for_<type>(gcloud_record) on the remote record set, and the record
\* of that data
DecodeRemote ==
    /\ cPc = "listed"
    /\ cData' = data_for(Upper(cRecordSet.val.record_type), cRecordSet.val)
    /\ cPc' = IF cData'.ok THEN "read" ELSE "raised"
    /\ cRecord' = IF cData'.ok
                  THEN MkRecord(cRecordSet.val.name,
                                Upper(cRecordSet.val.record_type),
                                cRecordSet.val.ttl, cData'.val)
                  ELSE cRecord
    /\ UNCHANGED <<cRecordSet, cReencoded>>
    /\ UNCHANGED provVars

\* _record_to_record_set(gcloud_zone, record) on that record
EncodeBack ==
    /\ cPc = "read"
    /\ cReencoded' = record_to_record_set(cRecord)
    /\ cPc' = IF cReencoded'.ok THEN "rewritten" ELSE "raised"
    /\ UNCHANGED <<cRecord, cRecordSet, cData>>
    /\ UNCHANGED provVars

\* ------------------------------------------------------------------------
\* Specifications
\* ------------------------------------------------------------------------
Next ==
    \/ ApplyStart
    \/ PopulateStart
    \/ LocatePage
    \/ CreateZone
    \/ CreateZoneRejected
    \/ BuildBatch
    \/ Submit
    \/ SubmitRejected
    \/ PollReturn
    \/ Sleep
    \/ Reload
    \/ RemoteProgress
    \/ ListRecordsPage
    \/ AddRecords

Spec == Init /\ [][Next]_vars

\* _apply alone, which never reads the record set listing
InitApply ==
    /\ \E zs \in ZoneListings : InitProvider(zs, <<<<>>>>)
    /\ CodecIdle

NextApply ==
    \/ ApplyStart
    \/ LocatePage
    \/ CreateZone
    \/ CreateZoneRejected
    \/ BuildBatch
    \/ Submit
    \/ SubmitRejected
    \/ PollReturn
    \/ Sleep
    \/ Reload
    \/ RemoteProgress

SpecApply == InitApply /\ [][NextApply]_vars

\* _apply with a poll loop that goes on past the histories' bound. The
\* provider's thread keeps running: each of its steps is taken when it stays
\* enabled. Nothing obliges the remote system to complete a batch.
\* The zone listing is one page, with or without the zone.
InitPoll ==
    /\ \E zs \in {<<<<>>>>, <<<<ZoneZ>>>>} : InitProvider(zs, <<<<>>>>)
    /\ CodecIdle

NextPoll ==
    \/ NextApply
    \/ SleepUnrecorded
    \/ ReloadUnrecorded

SpecPoll ==
    /\ InitPoll
    /\ [][NextPoll]_vars
    /\ WF_vars(PollReturn)
    /\ WF_vars(Sleep)
    /\ WF_vars(SleepUnrecorded)
    /\ WF_vars(Reload)
    /\ WF_vars(ReloadUnrecorded)

\* populate and _apply called one after the other, in any order, against
\* a zone listing that holds the zone, another zone or none, on one page or
\* two, and a record set listing that holds one record set twice and one
\* of a type outside SUPPORTS
InitCalls ==
    /\ \E zs \in {<<<<>>>>, <<<<ZoneO>>>>, <<<<ZoneZ>>>>, <<<<ZoneO>>, <<>>>>} :
           InitProvider(zs, <<<<RS_A, RS_SOA>>, <<RS_A>>>>)
    /\ CodecIdle

NextCalls ==
    \/ Next
    \/ ApplyStartUnsupported

SpecCalls == InitCalls /\ [][NextCalls]_vars

\* _apply of plans without changes for zones that are not listed, against
\* a listing of one page
InitNewZone ==
    /\ \E zs \in {<<<<>>>>, <<<<ZoneO>>>>} : InitProvider(zs, <<<<>>>>)
    /\ CodecIdle

NextNewZone ==
    \/ ApplyStartNewZone
    \/ LocatePage
    \/ CreateZone
    \/ CreateZoneRejected
    \/ BuildBatch
    \/ Submit
    \/ SubmitRejected
    \/ PollReturn
    \/ Sleep
    \/ Reload
    \/ RemoteProgress

SpecNewZone == InitNewZone /\ [][NextNewZone]_vars

\* populate alone
NextPopulate ==
    \/ PopulateStart
    \/ LocatePage
    \/ ListRecordsPage
    \/ AddRecords

SpecPopulate == Init /\ [][NextPopulate]_vars

\* The codec alone
NextCodec == Encode \/ Decode

SpecCodec == InitCodec /\ [][NextCodec]_vars

\* The codec alone, from a remote TXT record set
NextDecode == DecodeRemote \/ EncodeBack

SpecDecode == InitDecode /\ [][NextDecode]_vars

\* ------------------------------------------------------------------------
\* Properties
\* ------------------------------------------------------------------------
Range(seq) == {seq[k] : k \in DOMAIN seq}

\* The operations of the log with the given name, in order
Logged(op) == SelectSeq(netlog, LAMBDA e : e.op = op)

RECURSIVE Flatten(_)
Flatten(pages) ==
    IF pages = <<>> THEN <<>> ELSE Head(pages) \o Flatten(Tail(pages))

IsPrefix(s, t) == Len(s) <= Len(t) /\ SubSeq(t, 1, Len(s)) = s

\* No zone of the listing has the name
NoMatch(pages, name) ==
    \A p \in DOMAIN pages : \A k \in DOMAIN pages[p] :
        pages[p][k].dns_name # name

\* The batch of this call has been built without an exception
BatchBuilt ==
    /\ call = "apply"
    /\ \/ pc \in {"submit", "poll", "reload", "returned"}
       \/ Logged("submit_rejected") # <<>>

\* The number of operations the changes before position k account for
RECURSIVE OpsBefore(_, _)
OpsBefore(chs, k) ==
    IF k <= 1 THEN 0
    ELSE OpsBefore(chs, k - 1)
         + (IF chs[k - 1].kind = UpdateName THEN 2 ELSE 1)

\* C1: in the batch apply has built, every Update change accounts for
\* exactly two consecutive operations, the Delete of its encoded existing
\* record and then the Add of its encoded new record; every other change
\* accounts for one.
C1_UpdateDeleteThenAdd ==
    BatchBuilt =>
        /\ Len(gcloud_changes.ops) = OpsBefore(changes, Len(changes) + 1)
        /\ \A k \in DOMAIN changes :
              changes[k].kind = UpdateName =>
                 LET n == OpsBefore(changes, k) IN
                 /\ gcloud_changes.ops[n + 1] =
                       [op |-> "delete",
                        rs |-> record_to_record_set(changes[k].existing).val]
                 /\ gcloud_changes.ops[n + 2] =
                       [op |-> "add",
                        rs |-> record_to_record_set(changes[k].new).val]

\* C1 witness: a built batch whose second change is an Update
C1_Witness ==
    /\ BatchBuilt
    /\ Len(changes) = 2
    /\ changes[1].kind = DeleteName
    /\ changes[2].kind = UpdateName

\* A change of the call is none of Create, Delete, Update
HasUnknownKind ==
    \E k \in DOMAIN changes :
        changes[k].kind \notin {CreateName, DeleteName, UpdateName}

\* C2 (as claimed): an apply whose changes hold a change that is none of
\* Create, Delete, Update makes no remote call at all, and ends with the
\* fatal error.
C2_UnknownKindNoRemoteCall ==
    (call = "apply" /\ HasUnknownKind) =>
        /\ netlog = <<>>
        /\ pc \in {"returned", "raised"} =>
              (pc = "raised" /\ error = "RuntimeError")

\* C3 (as claimed): the k-th delay of the poll loop is 2k - 1, capped at 29.
C3_DelayNeverExceeds29 ==
    \A k \in DOMAIN delays :
        delays[k] = (IF 2 * k - 1 < 29 THEN 2 * k - 1 ELSE 29)

\* C4 (as claimed): when the locator called with create=True comes back to
\* apply and the listing held no zone of the name, it has created a zone of
\* that name and returned it.
C4_CreateReturnsZone ==
    (call = "apply" /\ pc = "build" /\ NoMatch(pre.remote, dns_name)) =>
        /\ gcloud_zone # None
        /\ gcloud_zone.dns_name = dns_name
        /\ gcloud_zone \in Range(Flatten(remoteZones))

\* C5: a call never submits more than one batch, and when apply has
\* returned, the log is: zone listings, at most one zone creation, exactly
\* one submission of the batch built from all the changes, then only status
\* re-fetches; the zone was located or created, and the last status seen is
\* 'done'.
C5_ReturnAfterSubmitAndDone ==
    /\ Len(Logged("submit")) <= 1
    /\ Len(remoteBatches) <= 1
    /\ (call = "apply" /\ pc = "returned") =>
          /\ gcloud_zone # None
          /\ gcloud_zone.dns_name = dns_name
          /\ gcloud_zone \in Range(Flatten(remoteZones))
          /\ gcloud_changes.status = "done"
          /\ Len(gcloud_changes.ops) = OpsBefore(changes, Len(changes) + 1)
          /\ remoteBatches = <<gcloud_changes.ops>>
          /\ \E s \in DOMAIN netlog :
                /\ netlog[s].op = "submit"
                /\ s >= 2
                /\ \A j \in 1..(s - 1) :
                      netlog[j].op \in {"list_zones", "create_zone"}
                /\ \A j \in (s + 1)..Len(netlog) : netlog[j].op = "reload"
                /\ Len(delays) = Len(netlog) - s

\* C5 witness: apply has returned after creating the zone and polling
C5_Witness ==
    /\ call = "apply"
    /\ pc = "returned"
    /\ Logged("create_zone") # <<>>
    /\ Len(delays) >= 2
    /\ Len(changes) = 2

\* populate has returned twice
PopulatedTwice == Len(popHist) >= 2

TokenOrder(n) == [k \in 1..n |-> IF k = 1 THEN 0 ELSE k]

Tokens(events) == [k \in DOMAIN events |-> events[k].token]

\* The locator has come back to its caller
LocatorReturned ==
    pc \in {"build", "submit", "poll", "reload", "list_records",
            "add_records", "returned"}

\* _get_gcloud_records is exhausted
RecordsListed ==
    /\ call = "populate"
    /\ \/ pc = "add_records"
       \/ /\ pc \in {"returned", "raised"}
          /\ Logged("list_records") # <<>>

\* C7 (as claimed): when the locator has come back, every page of the zone
\* listing has been fetched once, in token order, and every zone has been
\* looked at once; when the record sets have been listed, the same holds of
\* the record set listing.
C7_EveryPageFetchedOnce ==
    /\ (call # "none" /\ LocatorReturned) =>
          /\ Tokens(Logged("list_zones")) = TokenOrder(Len(pre.remote))
          /\ examined = Flatten(pre.remote)
    /\ RecordsListed =>
          /\ Tokens(Logged("list_records")) = TokenOrder(Len(rrsets))
          /\ yielded = Flatten(rrsets)

\* C7 (amended): the record set listing is fetched page by page in token
\* order, every page once, and every entry is yielded once, in order. The
\* zone listing is fetched in token order, every page at most once, and its
\* zones are looked at in order, each at most once; the locator stops at
\* the first zone of the name and fetches no page after that zone's; it
\* fetches every page and looks at every zone when no zone has the name.
C7_Pagination ==
    /\ IsPrefix(Tokens(Logged("list_zones")), TokenOrder(Len(pre.remote)))
    /\ IsPrefix(examined, Flatten(pre.remote))
    /\ examined =
          Flatten(SubSeq(pre.remote, 1, Len(Logged("list_zones")) - 1))
          \o (IF Logged("list_zones") = <<>> THEN <<>>
              ELSE SubSeq(pre.remote[Len(Logged("list_zones"))], 1,
                          Len(examined) - Len(Flatten(SubSeq(pre.remote, 1,
                                          Len(Logged("list_zones")) - 1)))))
    /\ \A k \in 1..(Len(examined) - 1) : examined[k].dns_name # dns_name
    /\ (call # "none" /\ LocatorReturned) =>
          \/ /\ examined # <<>>
             /\ examined[Len(examined)].dns_name = dns_name
             /\ gcloud_zone = examined[Len(examined)]
          \/ /\ NoMatch(pre.remote, dns_name)
             /\ Tokens(Logged("list_zones")) = TokenOrder(Len(pre.remote))
             /\ examined = Flatten(pre.remote)
    /\ IsPrefix(Tokens(Logged("list_records")), TokenOrder(Len(rrsets)))
    /\ yielded = Flatten(SubSeq(rrsets, 1, Len(Logged("list_records"))))
    /\ RecordsListed =>
          /\ Tokens(Logged("list_records")) = TokenOrder(Len(rrsets))
          /\ yielded = Flatten(rrsets)

\* C7 witness: populate has returned after a zone listing of two pages with
\* the zone on the second, and a record set listing of two pages
C7_Witness ==
    /\ call = "populate"
    /\ pc = "returned"
    /\ Len(Logged("list_zones")) = 2
    /\ Len(Logged("list_records")) = 2
    /\ Len(yielded) = 3

\* C8: a populate against a listing with no zone of the zone's name only
\* lists zones: it lists no record sets, creates no zone, leaves the remote
\* zones and the zone's records as they were, and returns without an
\* exception.
C8_AbsentZoneLeavesZoneUnchanged ==
    (call = "populate" /\ NoMatch(pre.remote, zone.name)) =>
        /\ pc \in {"locate", "returned"}
        /\ error = "none"
        /\ zone.records = pre.records
        /\ remoteZones = pre.remote
        /\ \A k \in DOMAIN netlog : netlog[k].op = "list_zones"
        /\ yielded = <<>>
        /\ pc = "returned" => gcloud_zone = None

\* C8 witness: populate has returned from a two-page listing that holds
\* another zone, while record sets exist remotely
C8_Witness ==
    /\ call = "populate"
    /\ pc = "returned"
    /\ NoMatch(pre.remote, zone.name)
    /\ Len(pre.remote) = 2
    /\ examined # <<>>
    /\ Flatten(rrsets) # <<>>

\* C9 (as claimed): encoding a valid record of a supported type and
\* decoding the result raises nothing and gives the record's data back.
C9_DecodeEncodeIsData ==
    /\ cPc # "raised"
    /\ cPc = "decoded" => cData.val = cRecord.data

\* C10: once the remote system has rejected the submission, apply has
\* raised the remote error and the rejection is the last remote call: the
\* batch is not accepted, not submitted again and not polled, no further
\* operation is sent, and a zone the call created is still listed.
C10_RejectionPropagates ==
    Logged("submit_rejected") # <<>> =>
        /\ pc = "raised"
        /\ error = "RemoteError"
        /\ Len(Logged("submit_rejected")) = 1
        /\ netlog[Len(netlog)].op = "submit_rejected"
        /\ Logged("submit") = <<>>
        /\ Logged("reload") = <<>>
        /\ delays = <<>>
        /\ remoteBatches = <<>>
        /\ remoteStatus = "none"
        /\ remoteZones = (IF Logged("create_zone") # <<>>
                          THEN WithZone(pre.remote, gcloud_zone)
                          ELSE pre.remote)
        /\ gcloud_zone \in Range(Flatten(remoteZones))

\* C10 witness: the submission was rejected after the call created the zone
C10_Witness ==
    /\ pc = "raised"
    /\ Logged("submit_rejected") # <<>>
    /\ Logged("create_zone") # <<>>
    /\ gcloud_changes.ops # <<>>

\* apply is in its poll loop
InPoll == call = "apply" /\ pc \in {"poll", "reload"}

\* C11: the poll loop is left only by returning, and only after a status
\* of 'done' has been fetched, so it never raises and never gives up; once
\* the remote status is 'done' apply eventually returns; and while apply is
\* in the loop, either the remote status becomes 'done' or apply sleeps and
\* re-fetches again and again, without end.
C11_PollsUntilDone ==
    /\ [][InPoll => (pc' \in {"poll", "reload", "returned"}
                     /\ error' = "none")]_vars
    /\ [][(InPoll /\ pc' = "returned") =>
              (gcloud_changes.status = "done" /\ remoteStatus = "done")]_vars
    /\ (InPoll /\ remoteStatus = "done") ~> (pc = "returned")
    /\ [](InPoll => (<>(remoteStatus = "done") \/ []<>(pc = "reload")))
    /\ [](InPoll => (<>(remoteStatus = "done") \/ []<>(pc = "poll")))

\* C11 witness: apply sleeps for the time after the last the history holds,
\* with the batch still pending
C11_Witness ==
    /\ InPoll
    /\ pc = "reload"
    /\ Len(delays) = MaxPolls
    /\ Reloads = MaxPolls
    /\ remoteStatus = "pending"

\* C12: a populate leaves the remote system as it found it: it creates no
\* zone and submits no batch. The zone listing changes only by apply
\* creating a zone, which happens only when no listed zone has the name,
\* and adds one zone of that name to the listing; every listed zone stays
\* listed, page by page.
C12_OnlyApplyMutatesRemote ==
    /\ [](call = "populate" =>
            /\ remoteZones = pre.remote
            /\ remoteBatches = <<>>
            /\ remoteStatus = "none"
            /\ Logged("create_zone") = <<>>
            /\ Logged("submit") = <<>>)
    /\ [][remoteZones' # remoteZones =>
            /\ call = "apply"
            /\ pc = "create_zone"
            /\ NoMatch(remoteZones, dns_name)
            /\ remoteZones' = WithZone(remoteZones, gcloud_zone')
            /\ gcloud_zone'.dns_name = dns_name]_vars
    /\ [][/\ Len(remoteZones') = Len(remoteZones)
          /\ \A p \in DOMAIN remoteZones :
                IsPrefix(remoteZones[p], remoteZones'[p])]_vars
    /\ [][remoteBatches' # remoteBatches =>
            (call = "apply" \/ remoteBatches' = <<>>)]_vars

\* C12 witness: a populate has listed the record sets of a zone that an
\* earlier apply created next to another zone
C12_Witness ==
    /\ call = "populate"
    /\ pc = "returned"
    /\ remoteZones = <<<<ZoneO, ZoneZ>>>>
    /\ Logged("list_records") # <<>>

\* C13: a remote TXT record set of more than one entry decodes to data
\* whose only key is 'values', holding the entries in order; one of exactly
\* one entry decodes to data whose only key is 'value', holding the entry;
\* neither step raises, and the record set encoded from the decoded data is
\* the remote one, with the same entries in the same order.
C13_TXTDecodeThenEncode ==
    /\ cPc # "raised"
    /\ cPc \in {"read", "rewritten"} =>
          /\ cData.ok
          /\ IF Len(cRecordSet.val.rrdatas) > 1
             THEN cData.val = [values |-> cRecordSet.val.rrdatas]
             ELSE cData.val = [value |-> cRecordSet.val.rrdatas[1]]
    /\ cPc = "rewritten" =>
          /\ cReencoded.ok
          /\ cReencoded.val.rrdatas = cRecordSet.val.rrdatas
          /\ cReencoded.val = cRecordSet.val

\* C13 witness: a record set of two different entries, one of them with a
\* space, has been decoded and encoded again
C13_Witness ==
    /\ cPc = "rewritten"
    /\ cRecordSet.val.rrdatas = <<<<"c">>, <<"a", " ", "b">>>>

\* The operations the claim of C14 gives one change: Add for a Create,
\* Delete for a Delete, Delete then Add for an Update, none for any other
ClaimedOps(change) ==
    CASE change.kind = CreateName ->
             <<[op |-> "add",
                rs |-> record_to_record_set(change_record(change)).val]>>
      [] change.kind = DeleteName ->
             <<[op |-> "delete",
                rs |-> record_to_record_set(change_record(change)).val]>>
      [] change.kind = UpdateName ->
             <<[op |-> "delete",
                rs |-> record_to_record_set(change.existing).val],
               [op |-> "add",
                rs |-> record_to_record_set(change.new).val]>>
      [] OTHER -> <<>>

RECURSIVE ClaimedBatch(_)
ClaimedBatch(chs) ==
    IF chs = <<>> THEN <<>>
    ELSE ClaimedOps(Head(chs)) \o ClaimedBatch(Tail(chs))

\* The changes of the given kind
CountKind(chs, kind) == Cardinality({k \in DOMAIN chs : chs[k].kind = kind})

\* Every change of the call is a Create, a Delete or an Update
AllKnownKinds == ~HasUnknownKind

C15_OnlyExactKindsAccepted ==
    (call = "apply" /\ HasUnknownKind) =>
        /\ ~BatchBuilt
        /\ Logged("submit") = <<>>
        /\ remoteBatches = <<>>
        /\ pc # "returned"
        /\ pc = "raised" => error # "none"

\* The zone-relative name the claim of C16 gives a record name: '' for the
\* zone's own name, R for R + '.' + zone name, the name itself otherwise
ClaimedRelativeName(record_name, zone_name) ==
    IF record_name = zone_name THEN <<>>
    ELSE IF /\ Len(record_name) > Len(zone_name) + 1
            /\ EndsWith(record_name, <<".">> \o zone_name)
    THEN DropLast(record_name, Len(zone_name) + 1)
    ELSE record_name

\* populate has gone through its second loop and returned
Populated ==
    /\ call = "populate"
    /\ pc = "returned"
    /\ Logged("list_records") # <<>>

\* C16 (as claimed): when populate has returned, every supported record set
\* it was given is in the zone as a record of its data under the relative
\* name of the claim: '' at the apex, R for R + '.' + zone name, and the
\* untruncated name when the name only ends with the characters of the
\* zone's name.
C16_RelativeNameAtLabelBoundary ==
    Populated =>
        \A obj \in records_ :
            \E r \in BagToSet(zone.records) :
                /\ r.name = ClaimedRelativeName(obj.rs.name, zone.name)
                /\ r.data = RecordFor(obj, zone.name).val.data

\* The call has been through _create_gcloud_zone: the zone was created, or
\* the remote system refused it, or the function raised
ZoneCreationTried ==
    /\ call = "apply"
    /\ \/ Logged("create_zone") # <<>>
       \/ Logged("create_zone_rejected") # <<>>
       \/ (pc = "raised" /\ gcloud_zone = None /\ error # "AttributeError")

\* C17 (as claimed): zone creation raises no error of its own for any
\* fully qualified name, and the zone it creates has the name it was asked
\* for and an identifier that is not empty, starts with a letter a-z and
\* holds only letters a-z, digits and dashes.
C17_ZoneIdentifierWellFormed ==
    /\ ZoneCreationTried => error \in {"none", "RemoteError"}
    /\ (call = "apply" /\ Logged("create_zone") # <<>>) =>
          /\ gcloud_zone.dns_name = dns_name
          /\ gcloud_zone \in Range(Flatten(remoteZones))
          /\ Len(gcloud_zone.name) > 0
          /\ gcloud_zone.name[1] \in Letters
          /\ \A k \in DOMAIN gcloud_zone.name :
                gcloud_zone.name[k] \in Letters \cup Digits \cup {"-"}

\* A change of the call has a record of a type outside SUPPORTS
HasUnsupportedRecord ==
    \E k \in DOMAIN changes :
        \/ change_record(changes[k]).type \notin SUPPORTS
        \/ /\ changes[k].kind = UpdateName
           /\ changes[k].existing.type \notin SUPPORTS

\* The records of the zone that come from the record set
RecordsOf(rs) ==
    {r \in BagToSet(zone.records) :
        /\ r.name = RelativeName(rs.name, zone.name)
        /\ r.data.type = Upper(rs.record_type)
        /\ r.data.ttl = rs.ttl}

C19_OneRefetchPerSleep ==
    /\ [](call = "apply" =>
            /\ pc \in {"poll", "returned"} => Reloads = Len(delays)
            /\ pc = "reload" => Len(delays) = Reloads + 1
            /\ pc \notin {"poll", "reload", "returned"} =>
                  (Reloads = 0 /\ delays = <<>>)
            /\ \A k \in DOMAIN netlog :
                  netlog[k].op = "reload" =>
                     \E s \in 1..(k - 1) : netlog[s].op = "submit")
    /\ [][pc = "submit" =>
            (pc' \in {"poll", "raised"} /\ delays' = <<>> /\ Reloads' = 0)]_vars
    /\ [][(pc = "poll" /\ gcloud_changes.status = "done") =>
            (pc' = "returned" /\ delays' = delays /\ netlog' = netlog)]_vars
    /\ [][(pc = "poll" /\ gcloud_changes.status # "done" /\ pc' # pc) =>
            (pc' = "reload" /\ Len(delays') = Len(delays) + 1
             /\ netlog' = netlog)]_vars
    /\ [][(pc = "reload" /\ pc' # pc) =>
            (pc' = "poll" /\ delays' = delays
             /\ netlog' = Append(netlog, [op |-> "reload", token |-> 0])
             /\ gcloud_changes'.status = remoteStatus)]_vars

\* C19 witness: apply has returned after three sleeps and three re-fetches
C19_Witness ==
    /\ call = "apply"
    /\ pc = "returned"
    /\ Len(delays) = 3
    /\ Reloads = 3

====
